---- MODULE Spec2Model ----
(***************************************************************************)
(* A model of the copy engine of rs_filecopy                               *)
(* (src/subprojects/rs_filecopy/src/copy/filecopy.rs and util.rs).         *)
(*                                                                         *)
(* The state is a file system (a map from the paths that exist to a file   *)
(* or a directory), the arguments of one call of copy(src, dst, opts), the *)
(* shared statistics, and the position of the call in its code.  Paths are *)
(* sequences of components; the empty sequence is the working directory.   *)
(* A file is its bytes and its permission bits.  One call of copy is a run *)
(* of the actions below, one per straight-line stretch of the code.        *)
(*                                                                         *)
(* Not modelled: symbolic links, the umask (a created file gets the mode   *)
(* that was asked for), the timer and the printed text.                    *)
(***************************************************************************)
EXTENDS Integers, Sequences, FiniteSets, TLC

\* ------------------------------------------------------------------ bounds
\* Longest source file, in bytes, when the source is a single file.
MaxLen == 2
\* Longest file of a source directory tree.
MaxDirLen == 1
\* Largest block size (CopyOptions.block_size); 0 is included.
MaxBlock == 1

\* Most read errors, and most write errors, the environment has in store.
MaxFaults == 1

\* Largest byte count handed to copy_n on its own, in buffers (one byte more
\* and one byte less than every multiple are included).
MaxBuffers == 2

\* Longest source file, and largest block size, of the copies of one file that
\* are followed to their end (block sizes that do not divide the length are
\* among them).
MaxLiveLen == 4
MaxLiveBlock == 3

\* Largest size a file system reports for a directory (Metadata::len of a
\* directory: 40 on tmpfs, 4096 and more on ext4).
MaxDirBytes == 131072

\* Longest run of digits, out of 0, 1 and 9, handed to parse_size_from_str
\* (two longer runs, which overflow, are always among the inputs).
MaxDigits == 2

\* ------------------------------------------------------- program constants
KB == 1024
MB == 1024 * KB
DEFAULT_BUFFER_SIZE == 32 * KB

\* ------------------------------------------------------------------ helpers
Max(a, b) == IF a > b THEN a ELSE b

\* (mutant) the first argument, whatever the second.
min_Left(a, b) == a

\* util::min.
min(a, b) == IF a < b THEN a ELSE b

Last(s) == s[Len(s)]

Front(s) == SubSeq(s, 1, Len(s) - 1)

IsPrefix(s, t) == Len(s) <= Len(t) /\ SubSeq(t, 1, Len(s)) = s

\* (mutant) the sizes are not added up.
SumSizes_None(list) == 0

\* copy_directory, filecopy.rs:110-113: the sizes of the files listed, added up.
RECURSIVE SumSizes(_)
SumSizes(list) ==
    IF list = <<>> THEN 0 ELSE Head(list).size + SumSizes(Tail(list))

Perms(S) ==
    {p \in [1..Cardinality(S) -> S] : \A i, j \in 1..Cardinality(S) : p[i] = p[j] => i = j}

\* ------------------------------------------------------------- file system
FileNode(data, mode) == [kind |-> "file", data |-> data, mode |-> mode]

DirNode == [kind |-> "dir", data |-> <<>>, mode |-> 0]

\* Path::parent, Path::file_name and Path::join on component sequences.
Parent(p) == Front(p)

Basename(p) == Last(p)

Join(p, q) == p \o q

Exists(f, p) == p = <<>> \/ p \in DOMAIN f

IsDir(f, p) == p = <<>> \/ (p \in DOMAIN f /\ f[p].kind = "dir")

IsFile(f, p) == p \in DOMAIN f /\ f[p].kind = "file"

Prefixes(p) == {SubSeq(p, 1, k) : k \in 1..Len(p)}

Children(f, p) == {q \in DOMAIN f : Len(q) = Len(p) + 1 /\ SubSeq(q, 1, Len(p)) = p}

Under(f, p) == {q \in DOMAIN f : IsPrefix(p, q)}

Put(f, p, node) == [q \in DOMAIN f \cup {p} |-> IF q = p THEN node ELSE f[q]]

Remove(f, p) == [q \in DOMAIN f \ {p} |-> f[q]]

\* Every node that exists sits in a directory that exists.
WellFormed(f) == \A p \in DOMAIN f : Len(p) >= 1 /\ IsDir(f, Parent(p))

\* std::fs::metadata(path): "ok" when the path resolves, else the error kind.
Stat(f, p) ==
    IF Exists(f, p) THEN "ok"
    ELSE IF \E q \in Prefixes(p) : IsFile(f, q) THEN "NotADirectory"
    ELSE "NotFound"

\* std::fs::create_dir_all(dir): every missing directory of the path is made;
\* a regular file on the path makes it fail and nothing is made.
MkdirAll(f, p) ==
    IF IsDir(f, p) THEN [fs |-> f, err |-> "ok"]
    ELSE IF IsFile(f, p) THEN [fs |-> f, err |-> "AlreadyExists"]
    ELSE IF \E q \in Prefixes(p) : IsFile(f, q) THEN [fs |-> f, err |-> "NotADirectory"]
    ELSE [fs |-> [q \in DOMAIN f \cup Prefixes(p) |-> IF q \in DOMAIN f THEN f[q] ELSE DirNode],
          err |-> "ok"]

\* The I/O errors the environment has in store: the directories read_dir
\* cannot list, the entries whose metadata cannot be read, the paths whose
\* removal fails (PermissionDenied: the path stays; NotFound: another process
\* took it first), and how many reads of a source file and writes of a
\* destination file are still to fail.
NoFaults == [unlistable |-> {}, nometa |-> {}, remove |-> {}, read |-> 0, write |-> 0]

RemoveFault(flt, p) ==
    IF \E r \in flt.remove : r.path = p
    THEN (CHOOSE r \in flt.remove : r.path = p).kind
    ELSE "ok"

\* std::fs::remove_file(path): whether the removal is permitted is checked
\* before what the path is.
RemoveFile(f, p, flt) ==
    IF ~Exists(f, p) THEN [fs |-> f, err |-> Stat(f, p)]
    ELSE IF RemoveFault(flt, p) = "PermissionDenied" THEN [fs |-> f, err |-> "PermissionDenied"]
    ELSE IF IsDir(f, p) THEN [fs |-> f, err |-> "IsADirectory"]
    ELSE IF RemoveFault(flt, p) = "NotFound" THEN [fs |-> Remove(f, p), err |-> "NotFound"]
    ELSE [fs |-> Remove(f, p), err |-> "ok"]

\* std::fs::remove_dir(path): only an empty directory is removed; whether the
\* removal is permitted is checked before what the path is and whether it is
\* empty.
RemoveDir(f, p, flt) ==
    IF ~Exists(f, p) THEN [fs |-> f, err |-> Stat(f, p)]
    ELSE IF RemoveFault(flt, p) = "PermissionDenied" THEN [fs |-> f, err |-> "PermissionDenied"]
    ELSE IF ~IsDir(f, p) THEN [fs |-> f, err |-> "NotADirectory"]
    ELSE IF Children(f, p) # {} THEN [fs |-> f, err |-> "DirectoryNotEmpty"]
    ELSE IF RemoveFault(flt, p) = "NotFound" THEN [fs |-> Remove(f, p), err |-> "NotFound"]
    ELSE [fs |-> Remove(f, p), err |-> "ok"]

\* ------------------------------------------------------------ pure functions
\* u64 arithmetic on four 16-bit limbs, the lowest first.
U64(x) == <<x % 65536, x \div 65536, 0, 0>>

RECURSIVE SubLimbs(_, _, _, _)
SubLimbs(a, b, i, borrow) ==
    IF i > Len(a) THEN <<>>
    ELSE LET v == a[i] - b[i] - borrow
         IN  <<IF v < 0 THEN v + 65536 ELSE v>> \o SubLimbs(a, b, i + 1, IF v < 0 THEN 1 ELSE 0)

\* a - b on u64 in a build without overflow checks.
wrapping_sub(a, b) == SubLimbs(U64(a), U64(b), 1, 0)

\* a * m + c on u64, m and c small: the four limbs, then the carry out of them.
RECURSIVE MulAddLimbs(_, _, _, _)
MulAddLimbs(a, m, c, i) ==
    IF i > Len(a) THEN <<c>>
    ELSE LET v == a[i] * m + c
         IN  <<v % 65536>> \o MulAddLimbs(a, m, v \div 65536, i + 1)

\* a * 1024^k on u64: the wrapped product, and whether it overflowed.
RECURSIVE TimesKB(_, _)
TimesKB(a, k) ==
    IF k = 0 THEN [v |-> a, overflow |-> FALSE]
    ELSE LET r == MulAddLimbs(a, KB, 0, 1)
             rest == TimesKB(SubSeq(r, 1, 4), k - 1)
         IN  [v |-> rest.v, overflow |-> r[5] # 0 \/ rest.overflow]

\* A string is the sequence of its characters.
Digits == <<"0", "1", "2", "3", "4", "5", "6", "7", "8", "9">>

IsDigit(c) == \E d \in 1..10 : Digits[d] = c

DigitVal(c) == (CHOOSE d \in 1..10 : Digits[d] = c) - 1

\* str::parse::<u64> on a run of digits: an error for the empty run and for a
\* number above u64::MAX.
RECURSIVE ParseDigits(_, _, _)
ParseDigits(digs, i, acc) ==
    IF i > Len(digs) THEN [ok |-> TRUE, v |-> acc]
    ELSE LET r == MulAddLimbs(acc, 10, DigitVal(digs[i]), 1)
         IN  IF r[5] # 0 THEN [ok |-> FALSE, v |-> acc]
             ELSE ParseDigits(digs, i + 1, SubSeq(r, 1, 4))

parse_u64(digs) == IF digs = <<>> THEN [ok |-> FALSE, v |-> U64(0)] ELSE ParseDigits(digs, 1, U64(0))

\* The leading digits of a string, counted.
RECURSIVE LeadingDigits(_, _)
LeadingDigits(str, i) ==
    IF i < Len(str) /\ IsDigit(str[i + 1]) THEN LeadingDigits(str, i + 1) ELSE i

\* parse_size_from_str, util.rs:117-135: the number, 8 when it cannot be
\* parsed, times the unit of the suffix; 8 MiB for any other suffix.
SizeOf(num, suffix) ==
    LET size_num == IF num.ok THEN num.v ELSE U64(8)
    IN  IF suffix \in {<<"k">>, <<"K">>} THEN TimesKB(size_num, 1)
        ELSE IF suffix \in {<<"m">>, <<"M">>} THEN TimesKB(size_num, 2)
        ELSE IF suffix \in {<<"g">>, <<"G">>} THEN TimesKB(size_num, 3)
        ELSE [v |-> U64(8 * MB), overflow |-> FALSE]

\* util::parse_size_from_str: the size on u64, and whether the product overflowed.
parse_size_from_str(str_size) ==
    LET i == LeadingDigits(str_size, 0)
    IN  SizeOf(parse_u64(SubSeq(str_size, 1, i)), SubSeq(str_size, i + 1, Len(str_size)))

\* util::copy_n on byte counts: avail is what the source still holds after its
\* read position, local is bytes_to_read_local.  Every read asks for
\* min(local, buffer) bytes and gets what is there, up to that.  io says which
\* read and which write fail, counted from 1 (0: none), and how many bytes a
\* failing write_all has written before it fails.  tr is the trace so far: the
\* reads (asked, got; got is -1 for an error), the count of bytes written, off,
\* how far the reads have moved the position of the source, and out, the
\* pieces of the source handed to write_all, in the order of the calls: each
\* the offset it was read at (from the position at the call) and its length.
NoIo == [read_fail |-> 0, write_fail |-> 0, partial |-> 0]

RECURSIVE copy_n_loop(_, _, _, _)
copy_n_loop(avail, local, io, tr) ==
    LET remaining_bytes == min(local, DEFAULT_BUFFER_SIZE)
        read_cnt == min(remaining_bytes, avail)
        piece(len) == IF len > 0 THEN <<[from |-> tr.off, len |-> len]>> ELSE <<>>
        done(res, got, len) ==
            [res |-> res, local |-> local, written |-> tr.written + len,
             reads |-> Append(tr.reads, [asked |-> remaining_bytes, got |-> got]),
             writes |-> tr.writes, out |-> tr.out \o piece(len)]
    IN  IF io.read_fail = Len(tr.reads) + 1 THEN done("Ok", -1, 0)
        ELSE IF read_cnt = 0 \/ local = 0 THEN done("Ok", read_cnt, 0)
        ELSE IF io.write_fail = tr.writes + 1
        THEN [done("Err", read_cnt, min(io.partial, read_cnt - 1))
                 EXCEPT !.local = local - read_cnt, !.writes = tr.writes + 1]
        ELSE copy_n_loop(avail - read_cnt, local - read_cnt, io,
                         [reads |-> Append(tr.reads, [asked |-> remaining_bytes, got |-> read_cnt]),
                          writes |-> tr.writes + 1,
                          written |-> tr.written + read_cnt,
                          off |-> tr.off + read_cnt,
                          out |-> tr.out \o piece(read_cnt)])

\* res: Ok or Err; n: the count returned with Ok; written: the count of bytes
\* that reached the destination; out: the pieces of the source that reached
\* it, in order; reads: the reads made; writes: the calls of write_all.
copy_n(avail, bytes_to_read, io) ==
    LET r == copy_n_loop(avail, bytes_to_read, io,
                         [reads |-> <<>>, writes |-> 0, written |-> 0, off |-> 0, out |-> <<>>])
    IN  [res |-> r.res, n |-> bytes_to_read - r.local, written |-> r.written, out |-> r.out,
         reads |-> r.reads, writes |-> r.writes]

\* The bytes of the pieces out, one after the other, of a file that holds data
\* and whose position was pos when they were read.
RECURSIVE PieceBytes(_, _, _)
PieceBytes(data, pos, out) ==
    IF out = <<>> THEN <<>>
    ELSE SubSeq(data, pos + out[1].from + 1, pos + out[1].from + out[1].len)
         \o PieceBytes(data, pos, Tail(out))

\* util::list_dir_recursive_rel: the results read_dir's order can give, each
\* an error kind ("ok" for none) and a list.  A file is listed by its path
\* relative to the root and its size; a directory is not listed, its own
\* listing is appended in its place when it has one, and passed over when
\* listing it returned an error (util.rs:91).
DirFile(f, base, rel) == [path |-> rel, size |-> Len(f[Join(base, rel)].data)]

RECURSIVE list_dir_recursive_rel_util(_, _, _, _)
RECURSIVE ListEntries(_, _, _, _, _, _)
ListEntries(f, base, order, i, flt, result) ==
    IF i > Len(order) THEN {[err |-> "ok", msg |-> "", list |-> result]}
    ELSE LET q == order[i]
             rel == SubSeq(q, Len(base) + 1, Len(q))
         IN  IF q \in flt.nometa
             THEN {[err |-> "PermissionDenied",
                    msg |-> "failure in reading metadata entry for file", list |-> <<>>]}
             ELSE IF f[q].kind = "dir"
             THEN UNION {ListEntries(f, base, order, i + 1, flt,
                                     IF sub.err = "ok" THEN result \o sub.list ELSE result)
                         : sub \in list_dir_recursive_rel_util(f, base, rel, flt)}
             ELSE ListEntries(f, base, order, i + 1, flt, Append(result, DirFile(f, base, rel)))

list_dir_recursive_rel_util(f, base, rel, flt) ==
    LET read_path == Join(base, rel)
    IN  IF ~IsDir(f, read_path)
        THEN {[err |-> IF Exists(f, read_path) THEN "NotADirectory" ELSE Stat(f, read_path),
               msg |-> "failure in reading directory", list |-> <<>>]}
        ELSE IF read_path \in flt.unlistable
        THEN {[err |-> "PermissionDenied", msg |-> "failure in reading directory", list |-> <<>>]}
        ELSE UNION {ListEntries(f, base, order, 1, flt, <<>>)
                    : order \in Perms(Children(f, read_path))}

list_dir_recursive_rel(f, base, flt) == list_dir_recursive_rel_util(f, base, <<>>, flt)

\* util::delete_dir_recursive: the outcomes read_dir's order can give.  Every
\* subdirectory is deleted first, the first error ends the call, and then the
\* directory itself must be empty to be removed; NotFound is not an error.
\* calls holds the kinds of calls that were made: read_dir, stat (the metadata
\* of an entry), remove (remove_dir).
\* (mutant) every error of remove_dir is passed over.
Tolerated_Any(kind) == TRUE

\* delete_dir_recursive, util.rs:34-38: remove_dir's NotFound is passed over.
Tolerated(kind) == kind = "NotFound"

\* (mutant) the tree is removed with all that is in it, as remove_dir_all does.
delete_dir_recursive_All(f, p, flt) ==
    {[fs |-> [q \in DOMAIN f \ Under(f, p) |-> f[q]], err |-> "ok", calls |-> {"remove"}]}

RECURSIVE delete_dir_recursive(_, _, _)
RECURSIVE DeleteEntries(_, _, _, _, _)
DeleteEntries(f, order, i, flt, calls) ==
    IF i > Len(order) THEN {[fs |-> f, err |-> "ok", calls |-> calls]}
    ELSE LET q == order[i]
             c1 == calls \cup {"stat"}
             sub == IF q \in flt.nometa
                    THEN {[fs |-> f, err |-> "PermissionDenied", calls |-> c1]}
                    ELSE IF f[q].kind = "dir"
                    THEN {[r EXCEPT !.calls = @ \cup c1] : r \in delete_dir_recursive(f, q, flt)}
                    ELSE {[fs |-> f, err |-> "ok", calls |-> c1]}
         IN  UNION {IF r.err # "ok" THEN {r}
                    ELSE DeleteEntries(r.fs, order, i + 1, flt, r.calls)
                    : r \in sub}

delete_dir_recursive(f, p, flt) ==
    IF ~IsDir(f, p)
    THEN {[fs |-> f, err |-> IF Exists(f, p) THEN "NotADirectory" ELSE Stat(f, p),
           calls |-> {"read_dir"}]}
    ELSE IF p \in flt.unlistable
    THEN {[fs |-> f, err |-> "PermissionDenied", calls |-> {"read_dir"}]}
    ELSE UNION {
        {IF r.err # "ok" THEN r
         ELSE LET rm == RemoveDir(r.fs, p, flt)
              IN  [fs |-> rm.fs, err |-> IF Tolerated(rm.err) THEN "ok" ELSE rm.err,
                   calls |-> r.calls \cup {"remove"}]
         : r \in DeleteEntries(f, order, 1, flt, {"read_dir"})}
        : order \in Perms(Children(f, p))}

\* -------------------------------------------------------------------- state
VARIABLES
    fs,           \* the file system: existing path -> node
    fs0,          \* the file system when copy was called (history)
    src, dst,     \* copy's path arguments
    opts,         \* CopyOptions without its stats_store
    stats,        \* CopyOptions.stats_store: transferred, total
    pc,           \* where the call is
    destination,  \* copy's effective destination
    filelist,     \* copy_directory's filelist
    idx,          \* copy_directory's position in filelist (from 1)
    cf,           \* copy_file's arguments and locals
    result,       \* what copy returned: kind and message
    hist,         \* history: the calls made so far
    faults,       \* the I/O errors still to come
    first,        \* history: how the first of two runs in a row ended
    app           \* the application of a function on its own: arguments, result

vars ==
    <<fs, fs0, src, dst, opts, stats, pc, destination, filelist, idx, cf, result, hist,
      faults, first, app>>

\* ------------------------------------------------------------ initial states
S == <<"s">>

T == <<"t">>

TS == <<"t", "s">>

\* The bytes of source file number tag, and bytes no source file holds.
SrcData(tag, n) == [i \in 1..n |-> 10 * tag + i]

Junk(n) == [i \in 1..n |-> 9]

Absent == [there |-> FALSE, data |-> <<>>]

There(data) == [there |-> TRUE, data |-> data]

\* What may already sit where a source file of these bytes is to be copied:
\* nothing, the first k bytes of the source (an interrupted copy, k up to all
\* of it), or other bytes, up to one more than the source has.
PreStates(data) ==
    {Absent} \cup {There(SubSeq(data, 1, k)) : k \in 0..Len(data)}
             \cup {There(Junk(k)) : k \in 1..(Len(data) + 1)}

\* The same under a directory: nothing, a prefix, or one byte too many.
DirPreStates(data) ==
    {Absent} \cup {There(SubSeq(data, 1, k)) : k \in 0..Len(data)}
             \cup {There(Junk(Len(data) + 1))}

\* A file that was there before the call; its mode is no source file's mode.
OldFile(data) == FileNode(data, 0)

PutPre(f, p, pre) == IF pre.there THEN Put(f, p, OldFile(pre.data)) ELSE f

EmptyFS == [p \in {} |-> DirNode]

\* A source: nothing, a regular file, or a directory tree with an optional
\* file a and an optional subdirectory d that holds an optional file b.
SrcTrees ==
    {[kind |-> "none", n |-> 0, mode |-> 0, a |-> -1, b |-> -2]}
    \cup {[kind |-> "file", n |-> n, mode |-> m, a |-> -1, b |-> -2] : n \in 0..MaxLen, m \in {1, 2}}
    \cup {[kind |-> "dir", n |-> 0, mode |-> 0, a |-> a, b |-> b] :
              a \in (-1)..MaxDirLen, b \in (-2)..MaxDirLen}

PlaceTree(f, root, tree) ==
    IF tree.kind = "none" THEN f
    ELSE IF tree.kind = "file" THEN Put(f, root, FileNode(SrcData(1, tree.n), tree.mode))
    ELSE LET f1 == Put(f, root, DirNode)
             f2 == IF tree.a >= 0
                   THEN Put(f1, Join(root, <<"a">>), FileNode(SrcData(1, tree.a), 1)) ELSE f1
             f3 == IF tree.b >= -1 THEN Put(f2, Join(root, <<"d">>), DirNode) ELSE f2
         IN  IF tree.b >= 0
             THEN Put(f3, Join(root, <<"d", "b">>), FileNode(SrcData(2, tree.b), 2)) ELSE f3

\* What may already sit at path p, where the source tree would be copied to:
\* a regular file, or a directory (for a source tree, with files of its own
\* where the tree's files go, or a file where the tree has directory d).
PreFiles(f, p, tree) ==
    IF tree.kind = "none" THEN {f}
    ELSE IF tree.kind = "file"
    THEN {PutPre(f, p, pre) : pre \in PreStates(SrcData(1, tree.n))}
    ELSE {f, Put(f, p, OldFile(Junk(1)))}

PreTrees(f, p, tree) ==
    IF tree.kind = "none" THEN {}
    ELSE IF tree.kind = "file" THEN {Put(f, p, DirNode)}
    ELSE {LET g == Put(f, p, DirNode)
              ga == PutPre(g, Join(p, <<"a">>), pa)
          IN  IF pb.there
              THEN PutPre(Put(ga, Join(p, <<"d">>), DirNode), Join(p, <<"d", "b">>), pb)
              ELSE ga
          : pa \in IF tree.a >= 0 THEN DirPreStates(SrcData(1, tree.a)) ELSE {Absent},
            pb \in IF tree.b >= 0 THEN DirPreStates(SrcData(2, tree.b)) ELSE {Absent}}
         \cup IF tree.b >= 0
              THEN {Put(Put(f, p, DirNode), Join(p, <<"d">>), OldFile(Junk(1)))}
              ELSE {}

\* The calls: source, destination and the file system they meet.
Scenarios ==
    \* source s; destination t: absent or a file, or a directory (then t/s is
    \* where the copy goes)
    UNION {LET base == PlaceTree(EmptyFS, S, tree)
               tdir == Put(base, T, DirNode)
           IN  {[src |-> S, dst |-> T, fs |-> g] :
                    g \in PreFiles(base, T, tree) \cup PreFiles(tdir, TS, tree)
                          \cup PreTrees(tdir, TS, tree)}
               \* destination t/s given in full, under a missing t, a file t, a directory t
               \cup {[src |-> S, dst |-> TS, fs |-> g] :
                        g \in {base, Put(base, T, OldFile(Junk(1))), tdir,
                               Put(tdir, TS, DirNode)}}
               \* the same path twice
               \cup {[src |-> S, dst |-> S, fs |-> base]}
           : tree \in SrcTrees}
    \* source t/s; destination its own directory t, or s
    \cup UNION {LET base == PlaceTree(Put(EmptyFS, T, DirNode), TS, tree)
                IN  {[src |-> TS, dst |-> T, fs |-> base]}
                    \cup {[src |-> TS, dst |-> S, fs |-> g] : g \in {base, Put(base, S, DirNode)}}
                : tree \in SrcTrees \ {t \in SrcTrees : t.kind = "none"}}

Options ==
    [block_size : 0..MaxBlock, force : BOOLEAN, show_progress : BOOLEAN, recursive : BOOLEAN,
     remove : BOOLEAN, no_dir_err : BOOLEAN, resume : BOOLEAN]

NoResult == [kind |-> "none", msg |-> ""]

\* calls: the calls of copy_n; chunks: those that returned a count above 0;
\* missing: the count in the missing-bytes message, a u64 (see wrapping_sub).
IdleCf ==
    [src |-> <<>>, dst |-> <<>>, len |-> 0, mode |-> 0, pos |-> 0, wpos |-> 0, append |-> FALSE,
     bytes_transferred |-> 0, calls |-> 0, chunks |-> 0, res |-> NoResult, missing |-> <<>>]

\* touched: the kinds of file system call made; attempted: the list positions
\* copy_file was called for, in order; copied, failed: the positions (0 for a
\* single file) copy_file returned Ok and Err for; removed: the source files
\* remove_file removed; progress: the progress handler's calls.
NoHist ==
    [touched |-> {}, attempted |-> <<>>, copied |-> {}, failed |-> {}, removed |-> {},
     progress |-> <<>>]

NoFirst == [done |-> FALSE, result |-> NoResult, fs |-> EmptyFS]

NoApp == [fn |-> "none"]

\* A call of copy about to start.
Fresh ==
    \* CopyOptions::new, filecopy.rs:47-51
    /\ stats = [transferred |-> 0, total |-> 0]
    /\ pc = "start"
    /\ destination = <<>>
    /\ filelist = <<>>
    /\ idx = 0
    /\ cf = IdleCf
    /\ result = NoResult
    /\ hist = NoHist
    /\ first = NoFirst
    /\ app = NoApp

Init ==
    /\ \E sc \in Scenarios :
          /\ fs = sc.fs
          /\ fs0 = sc.fs
          /\ src = sc.src
          /\ dst = sc.dst
    /\ opts \in Options
    /\ faults = NoFaults
    /\ Fresh

\* The calls that meet I/O errors: source s, destination t, and one kind of
\* error in store: a directory of the source tree that cannot be listed, an
\* entry of it whose metadata cannot be read, a path of it whose removal
\* fails, reads of a source file that fail, or writes of a destination file.
FaultSets(f, source) ==
    LET tree == Under(f, source)
    IN  {NoFaults}
        \cup {[NoFaults EXCEPT !.unlistable = {p}] : p \in {q \in tree : f[q].kind = "dir"}}
        \cup {[NoFaults EXCEPT !.nometa = {p}] : p \in tree \ {source}}
        \cup {[NoFaults EXCEPT !.remove = {[path |-> p, kind |-> k]}] :
                  p \in tree, k \in {"PermissionDenied", "NotFound"}}
        \cup {[NoFaults EXCEPT !.read = n] : n \in 1..MaxFaults}
        \cup {[NoFaults EXCEPT !.write = n] : n \in 1..MaxFaults}

InitFaults ==
    /\ \E sc \in {x \in Scenarios : x.src = S /\ x.dst = T} :
          /\ fs = sc.fs
          /\ fs0 = sc.fs
          /\ src = sc.src
          /\ dst = sc.dst
          /\ faults \in FaultSets(sc.fs, sc.src)
    /\ opts \in {o \in Options : ~o.show_progress /\ o.block_size >= 1}
    /\ Fresh

\* No call of copy: the state beside the application of a function on its own.
\* The options are those of CopyOptions::new, filecopy.rs:35-53: a block of
\* 8 MiB and every flag off.
NoOptions ==
    [block_size |-> 8 * 1024 * 1024, force |-> FALSE, show_progress |-> FALSE, recursive |-> FALSE,
     remove |-> FALSE, no_dir_err |-> FALSE, resume |-> FALSE]

Idle ==
    /\ fs = EmptyFS
    /\ fs0 = EmptyFS
    /\ src = <<>>
    /\ dst = <<>>
    /\ opts = NoOptions
    /\ stats = [transferred |-> 0, total |-> 0]
    /\ pc = "idle"
    /\ destination = <<>>
    /\ filelist = <<>>
    /\ idx = 0
    /\ cf = IdleCf
    /\ result = NoResult
    /\ hist = NoHist
    /\ faults = NoFaults
    /\ first = NoFirst

\* copy_n on its own: the bytes the source holds, the bytes asked for, and the
\* read and the write that fail, if any.
CopySizes == {n \in {k * DEFAULT_BUFFER_SIZE + d : k \in 0..MaxBuffers, d \in {-1, 0, 1}} : n >= 0}

IoCases ==
    [read_fail : 0..(MaxBuffers + 2), write_fail : 0..(MaxBuffers + 1), partial : {0, 1}]

InitCopyN ==
    /\ Idle
    /\ \E avail \in CopySizes, bytes_to_read \in CopySizes, io \in IoCases :
          app = [fn |-> "copy_n", avail |-> avail, bytes_to_read |-> bytes_to_read, io |-> io,
                 done |-> FALSE, ret |-> <<>>]

\* The calls that are made twice in a row: force set, move and resume off.
InitTwice ==
    /\ Init
    /\ opts.force
    /\ ~opts.remove
    /\ ~opts.resume

\* parse_size_from_str on its own: runs of digits, two of them too long for
\* u64 (20 nines; 2^54, which times 1024 is 2^64), and what follows them.
RECURSIVE DigitRuns(_)
DigitRuns(n) ==
    IF n = 0 THEN {<<>>}
    ELSE DigitRuns(n - 1) \cup {Append(r, d) : r \in DigitRuns(n - 1), d \in {"0", "1", "9"}}

LongRuns ==
    {[i \in 1..20 |-> "9"],
     <<"1", "8", "0", "1", "4", "3", "9", "8", "5", "0", "9", "4", "8", "1", "9", "8", "4">>}

Suffixes ==
    {<<>>, <<"k">>, <<"K">>, <<"m">>, <<"M">>, <<"g">>, <<"G">>, <<"x">>, <<"B">>, <<"K", "B">>,
     <<"k", "1">>}

InitParse ==
    /\ Idle
    /\ \E digs \in DigitRuns(MaxDigits) \cup LongRuns, suffix \in Suffixes :
          app = [fn |-> "parse_size_from_str", str_size |-> digs \o suffix, done |-> FALSE,
                 ret |-> <<>>]

\* ------------------------------------------------------------------ actions
Err(kind, msg) == [kind |-> kind, msg |-> msg]

Ok == [kind |-> "Ok", msg |-> ""]

Touch(h, calls) == [h EXCEPT !.touched = @ \cup calls]

\* An error of remove_file, for the history.
RemoveErrors(rm) == IF rm.err # "ok" THEN {"remove_error"} ELSE {}

\* copy's return: the call is over.
Return(r, h) ==
    /\ result' = r
    /\ pc' = "done"
    /\ hist' = h

\* (mutant) the statistics are not verified.
VerifyStats_Unchecked(st) == Ok

\* copy, filecopy.rs:232-259: the statistics are verified, then Ok.
VerifyStats(st) ==
    IF st.transferred # st.total THEN Err("Other", "error in copy") ELSE Ok

\* copy, filecopy.rs:152-215: the checks before the copy starts, the effective
\* destination, and the dispatch on the kind of the source.
\* (mutant) the paths are not compared.
SamePath_Unchecked(source, dest) == FALSE

\* copy, filecopy.rs:153-154: the two path strings are compared.
SamePath(source, dest) == source = dest

\* (mutant) a directory is copied without recursive set.
NeedsRecursive_Never(src_is_dir, recursive) == FALSE

\* copy, filecopy.rs:177-178: a directory is copied only with recursive set.
NeedsRecursive(src_is_dir, recursive) == src_is_dir /\ ~recursive

\* (mutant) the destination argument is taken as it is.
EffectiveDestination_Same(f, source, dest) == dest

\* copy, filecopy.rs:185-193: an existing directory as destination stands for
\* the path of the source's basename in it.
EffectiveDestination(f, source, dest) ==
    IF IsDir(f, dest) THEN Join(dest, <<Basename(source)>>) ELSE dest

copy ==
    /\ pc = "start"
    /\ IF SamePath(src, dst)
       THEN /\ Return(Err("Other", "destination is same as the source"), hist)
            /\ UNCHANGED <<fs, stats, destination, filelist, idx, cf>>
       ELSE LET h1 == Touch(hist, {"stat"})
                src_is_dir == IsDir(fs, src)
                retarget == IsDir(fs, dst)
                dest == EffectiveDestination(fs, src, dst)
            IN  IF Stat(fs, src) # "ok"
                THEN /\ Return(Err(Stat(fs, src), "stat failed for source path"), h1)
                     /\ UNCHANGED <<fs, stats, destination, filelist, idx, cf>>
                ELSE IF NeedsRecursive(src_is_dir, opts.recursive)
                THEN /\ Return(Err("InvalidInput", "source is a directory but --recursive option not specified"), h1)
                     /\ UNCHANGED <<fs, stats, destination, filelist, idx, cf>>
                ELSE IF Stat(fs, dst) = "ok" /\ ~retarget /\ src_is_dir
                THEN /\ Return(Err("Other", "source is a directory, destination is a file"), h1)
                     /\ UNCHANGED <<fs, stats, destination, filelist, idx, cf>>
                ELSE /\ destination' = dest
                     /\ hist' = h1
                     /\ result' = result
                     /\ UNCHANGED <<fs, filelist, idx>>
                     /\ IF src_is_dir
                        THEN /\ pc' = "copy_directory"
                             /\ UNCHANGED <<stats, cf>>
                        ELSE /\ pc' = "copy_file"
                             /\ stats' = [stats EXCEPT !.total = Len(fs[src].data)]
                             /\ cf' = [IdleCf EXCEPT !.src = src, !.dst = dest]
    /\ UNCHANGED <<fs0, src, dst, opts, faults, first, app>>

\* copy_directory, filecopy.rs:106-113: the files are listed, in the order
\* read_dir gives them, and their sizes are added to the total.
copy_directory_list ==
    /\ pc = "copy_directory"
    /\ \E r \in list_dir_recursive_rel(fs, src, faults) :
          IF r.err # "ok"
          THEN /\ Return(Err(r.err, r.msg),
                         Touch(hist, {"read_dir", "stat"}))
               /\ UNCHANGED <<filelist, stats, idx>>
          ELSE /\ filelist' = r.list
               /\ stats' = [stats EXCEPT !.total = @ + SumSizes(r.list)]
               /\ idx' = 1
               /\ pc' = "dir_loop"
               /\ hist' = Touch(hist, {"read_dir", "stat"})
               /\ result' = result
    /\ UNCHANGED <<fs, fs0, src, dst, opts, destination, cf, faults, first, app>>

\* copy_directory, filecopy.rs:115-118: the next file of the list is handed to
\* copy_file.
copy_directory_call ==
    /\ pc = "dir_loop"
    /\ idx <= Len(filelist)
    /\ cf' = [IdleCf EXCEPT !.src = Join(src, filelist[idx].path),
                            !.dst = Join(destination, filelist[idx].path)]
    /\ pc' = "copy_file"
    /\ hist' = [hist EXCEPT !.attempted = Append(@, idx)]
    /\ UNCHANGED <<fs, fs0, src, dst, opts, stats, destination, filelist, idx, result,
                   faults, first, app>>

\* copy_directory, filecopy.rs:136-147, and copy, filecopy.rs:207-259: after the
\* last file a move deletes the source tree; then copy verifies the statistics.
copy_directory_end ==
    /\ pc = "dir_loop"
    /\ idx > Len(filelist)
    /\ cf' = cf
    /\ IF opts.remove
       THEN \E r \in delete_dir_recursive(fs, src, faults) :
              /\ fs' = r.fs
              /\ Return(IF r.err # "ok" THEN Err(r.err, "failed to remove source directory")
                        ELSE VerifyStats(stats),
                        Touch(hist, r.calls))
       ELSE /\ fs' = fs
            /\ Return(VerifyStats(stats), hist)
    /\ UNCHANGED <<fs0, src, dst, opts, stats, destination, filelist, idx, faults, first, app>>

\* OpenOptions::open with create and write (and append): a directory cannot be
\* opened for writing, the parent must be a directory, a missing file is
\* created empty with the mode given, an existing file is left as it is.
OpenForWrite(f, p, mode) ==
    IF IsDir(f, p) THEN [fs |-> f, err |-> "IsADirectory"]
    ELSE IF ~IsDir(f, Parent(p)) THEN [fs |-> f, err |-> Stat(f, p)]
    ELSE IF IsFile(f, p) THEN [fs |-> f, err |-> "ok"]
    ELSE [fs |-> Put(f, p, FileNode(<<>>, mode)), err |-> "ok"]

\* copy_file, filecopy.rs:262-366: the source is opened, the destination is
\* probed, its directories are made, it is opened, and a resumed copy skips
\* what the destination already holds.
\* (mutant) resume alone no longer lets an existing destination through, and
\* its absence no longer stops the copy.
RefuseExisting_ForceOnly(dst_exists, force, resume) == dst_exists /\ ~force /\ resume

\* (mutant) a resumed copy starts at the first byte.
ResumeFrom_Start(resumed, dst_file_size) == 0

\* copy_file, filecopy.rs:286-298: an existing destination is not overwritten
\* unless force or resume is set.
RefuseExisting(dst_exists, force, resume) == dst_exists /\ ~force /\ ~resume

\* copy_file, filecopy.rs:347-365: a resumed copy starts where the destination ends.
ResumeFrom(resumed, dst_file_size) == IF resumed THEN dst_file_size ELSE 0

\* copy_file, filecopy.rs:264-282: the sizes the metadata of the open source
\* can give.  File::open opens a directory as it opens a regular file, and the
\* size of a directory is what its file system makes it.
SourceLens(f, p) == IF IsDir(f, p) THEN 0..MaxDirBytes ELSE {Len(f[p].data)}

copy_file_open ==
    /\ pc = "copy_file"
    /\ LET dst_exists == Stat(fs, cf.dst) = "ok"
           mk == IF dst_exists THEN [fs |-> fs, err |-> "ok"] ELSE MkdirAll(fs, Parent(cf.dst))
           resumed == dst_exists /\ opts.resume
           op == OpenForWrite(mk.fs, cf.dst, IF resumed THEN fs[cf.dst].mode ELSE fs[cf.src].mode)
           dst_file_size == Len(fs[cf.dst].data)
           fail(r, f, calls) ==
               /\ cf' = [cf EXCEPT !.res = r]
               /\ fs' = f
               /\ hist' = Touch(hist, calls)
               /\ pc' = "copy_file_return"
               /\ stats' = stats
       IN  IF ~Exists(fs, cf.src)
           THEN fail(Err(Stat(fs, cf.src), "failure in opening source file"), fs, {"open"})
           ELSE IF RefuseExisting(dst_exists, opts.force, opts.resume)
           THEN fail(Err("AlreadyExists", "file exists, can't copy file without --force or --continue option"),
                     fs, {"open", "stat"})
           ELSE IF mk.err \notin {"ok", "AlreadyExists"}
           THEN fail(Err(mk.err, "failure in creating destination directory"), fs,
                     {"open", "stat", "mkdir"})
           ELSE IF op.err # "ok"
           THEN fail(Err(op.err, "failure in opening destination file"), mk.fs,
                     {"open", "stat"} \cup IF dst_exists THEN {} ELSE {"mkdir"})
           ELSE /\ fs' = op.fs
                /\ \E src_len \in SourceLens(fs, cf.src) :
                      cf' = [cf EXCEPT !.len = src_len,
                                       !.mode = fs[cf.src].mode,
                                       !.append = resumed,
                                       !.pos = ResumeFrom(resumed, dst_file_size),
                                       !.bytes_transferred = ResumeFrom(resumed, dst_file_size)]
                /\ stats' = [stats EXCEPT !.transferred = @ + ResumeFrom(resumed, dst_file_size)]
                /\ hist' = Touch(hist, {"open", "stat"}
                                       \cup (IF dst_exists THEN {} ELSE {"mkdir", "create"})
                                       \cup (IF resumed THEN {"seek"} ELSE {}))
                /\ pc' = "copy_file_loop"
    /\ UNCHANGED <<fs0, src, dst, opts, destination, filelist, idx, result, faults, first, app>>

\* File::write_all on the destination handle: at its position, or, opened for
\* append, at the end of the file.
WriteAt(data, wpos, bytes) ==
    [i \in 1..Max(Len(data), wpos + Len(bytes)) |->
        IF i > wpos /\ i <= wpos + Len(bytes) THEN bytes[i - wpos] ELSE data[i]]

Written(f, c, bytes) ==
    IF bytes = <<>> THEN f
    ELSE [f EXCEPT ![c.dst].data = IF c.append THEN @ \o bytes ELSE WriteAt(@, c.wpos, bytes)]

\* The I/O errors one call of copy_n can meet: a read of the source and a write
\* of the destination fail only while the environment has such errors in store.
IoChoices(flt) ==
    LET read_fails == {0} \cup (IF flt.read > 0 THEN 1..2 ELSE {})
    IN  {[read_fail |-> r, write_fail |-> 0, partial |-> 0] : r \in read_fails}
        \cup IF flt.write > 0
             THEN {[read_fail |-> r, write_fail |-> 1, partial |-> k] :
                      r \in read_fails, k \in 0..Max(MaxBlock - 1, 0)}
             ELSE {}

\* One call of copy_n in copy_file: what it returned and the bytes it wrote,
\* the next bytes of the source, block_size of them at most.  A source that is
\* a directory cannot be read: its first read fails.
Chunk(f, c, block_size, io) ==
    LET data == f[c.src].data
        run == copy_n(Max(Len(data) - c.pos, 0), block_size,
                      IF IsDir(f, c.src) THEN [io EXCEPT !.read_fail = 1] ELSE io)
    IN  [res |-> run.res, n |-> run.n,
         bytes |-> PieceBytes(data, c.pos, run.out),
         read_failed |-> \E i \in DOMAIN run.reads : run.reads[i].got = -1]

\* The errors still in store after that call.
Spent(flt, run) ==
    [flt EXCEPT !.read = @ - (IF run.read_failed /\ @ > 0 THEN 1 ELSE 0),
                !.write = @ - (IF run.res = "Err" THEN 1 ELSE 0)]

\* The errors that call met, for the history.
IoErrors(run) ==
    (IF run.read_failed THEN {"read_error"} ELSE {})
    \cup (IF run.res = "Err" THEN {"write_error"} ELSE {})

\* (mutant) the progress handler is called whether asked for or not.
ShowProgress_Always(show_progress) == TRUE

\* copy_file, filecopy.rs:390-393: the progress handler is called only when
\* show_progress is set.
ShowProgress(show_progress) == show_progress

\* (mutant) a call of copy_n that moved nothing does not end the loop.
LoopEnds_AtSize(bytes_copied, bytes_transferred, len) == bytes_transferred = len

\* copy_file, filecopy.rs:381-385: the loop ends when copy_n moved nothing, or
\* when the count before this call had reached the size of the source.
LoopEnds(bytes_copied, bytes_transferred, len) ==
    bytes_copied = 0 \/ bytes_transferred = len

\* copy_file, filecopy.rs:374-402: one turn of the loop that does not leave it.
\* copy_n moves a block, the counters grow by it, the progress handler is called.
copy_file_chunk ==
    /\ pc = "copy_file_loop"
    /\ \E io \in IoChoices(faults) : \E run \in {Chunk(fs, cf, opts.block_size, io)} :
          LET bytes_copied == run.n
              bytes_transferred == cf.bytes_transferred + bytes_copied
              st == [stats EXCEPT !.transferred = @ + bytes_copied]
          IN  /\ run.res = "Ok"
              /\ ~LoopEnds(bytes_copied, cf.bytes_transferred, cf.len)
              /\ fs' = Written(fs, cf, run.bytes)
              /\ cf' = [cf EXCEPT !.pos = @ + bytes_copied, !.wpos = @ + bytes_copied,
                                  !.bytes_transferred = bytes_transferred, !.calls = @ + 1,
                                  !.chunks = @ + 1]
              /\ stats' = st
              /\ faults' = Spent(faults, run)
              /\ hist' = [Touch(hist, {"read", "write"} \cup IoErrors(run)) EXCEPT !.progress =
                             IF ShowProgress(opts.show_progress)
                             THEN Append(@, [src |-> cf.src, bytes_transferred |-> bytes_transferred,
                                             total |-> cf.len, stats |-> st])
                             ELSE @]
    /\ UNCHANGED <<fs0, src, dst, opts, pc, destination, filelist, idx, result, first, app>>

\* copy_file, filecopy.rs:374-451: the turn that leaves the loop (copy_n failed
\* on a write, or moved nothing, or the count had reached the size), the
\* verification of the count and the permissions.  The subtraction in the error
\* message overflows when the count is above the size: a build with overflow
\* checks panics there, one without them wraps.
copy_file_finish ==
    /\ pc = "copy_file_loop"
    /\ \E io \in IoChoices(faults) : \E run \in {Chunk(fs, cf, opts.block_size, io)} :
          LET bytes_copied == Len(run.bytes)
              f1 == Written(fs, cf, run.bytes)
              c1 == [cf EXCEPT !.pos = @ + bytes_copied, !.wpos = @ + bytes_copied, !.calls = @ + 1,
                               !.chunks = @ + (IF run.res = "Ok" /\ run.n > 0 THEN 1 ELSE 0)]
              h1 == Touch(hist, {"read"} \cup (IF bytes_copied > 0 THEN {"write"} ELSE {})
                                       \cup IoErrors(run))
          IN  /\ faults' = Spent(faults, run)
              /\ IF run.res = "Err"
                 THEN /\ fs' = f1
                      /\ cf' = [c1 EXCEPT !.res = Err("StorageFull", "error while copying file")]
                      /\ hist' = Touch(h1, {"write"})
                      /\ pc' = "copy_file_return"
                      /\ UNCHANGED <<result, idx>>
                 ELSE /\ LoopEnds(run.n, cf.bytes_transferred, cf.len)
                      /\ IF cf.bytes_transferred # cf.len
                         THEN /\ fs' = f1
                              /\ \E checks \in IF cf.bytes_transferred > cf.len THEN BOOLEAN ELSE {FALSE} :
                                    IF checks
                                    THEN /\ Return(Err("panic", "attempt to subtract with overflow"), h1)
                                         /\ cf' = c1
                                         /\ UNCHANGED idx
                                    ELSE /\ cf' = [c1 EXCEPT
                                                     !.res = Err("Other", "missing bytes in destination"),
                                                     !.missing = wrapping_sub(cf.len, cf.bytes_transferred)]
                                         /\ hist' = h1
                                         /\ pc' = "copy_file_return"
                                         /\ UNCHANGED <<result, idx>>
                         ELSE /\ fs' = [f1 EXCEPT ![cf.dst].mode = cf.mode]
                              /\ cf' = [c1 EXCEPT !.res = Ok]
                              /\ hist' = Touch(h1, {"chmod"})
                              /\ pc' = "copy_file_return"
                              /\ UNCHANGED <<result, idx>>
    /\ UNCHANGED <<fs0, src, dst, opts, stats, destination, filelist, first, app>>

\* copy, filecopy.rs:215-259: copy_file is back from the single file.  An error
\* is copy's error; a move removes the source; the statistics are verified.
copy_after_file ==
    /\ pc = "copy_file_return"
    /\ idx = 0
    /\ LET rm == RemoveFile(fs, src, faults)
       IN  IF cf.res.kind # "Ok"
           THEN /\ Return(cf.res, [hist EXCEPT !.failed = @ \cup {idx}])
                /\ fs' = fs
           ELSE IF opts.remove
           THEN /\ fs' = rm.fs
                /\ Return(IF rm.err # "ok" THEN Err(rm.err, "failed to remove source file")
                          ELSE VerifyStats(stats),
                          [Touch(hist, {"remove"} \cup RemoveErrors(rm)) EXCEPT !.copied = @ \cup {idx},
                             !.removed = IF rm.err = "ok" THEN @ \cup {src} ELSE @])
           ELSE /\ fs' = fs
                /\ Return(VerifyStats(stats), [hist EXCEPT !.copied = @ \cup {idx}])
    /\ UNCHANGED <<fs0, src, dst, opts, stats, destination, filelist, idx, cf, faults, first, app>>

\* copy_directory, filecopy.rs:118-134: copy_file is back from a file of the
\* list.  Its error ends the walk unless no_dir_err is set; after a copy a move
\* removes the source file, and that error too ends the walk unless no_dir_err.
\* (mutant) no error ends the walk.
StopOnError_Never(no_dir_err) == FALSE

\* copy_directory, filecopy.rs:119-120: an error of copy_file ends the walk
\* unless no_dir_err is set.
StopOnError(no_dir_err) == ~no_dir_err

\* (mutant) an error of remove_file ends the walk, whatever no_dir_err.
StopOnRemoveError_Always(no_dir_err) == TRUE

\* copy_directory, filecopy.rs:125-126: an error of remove_file ends the walk
\* unless no_dir_err is set.
StopOnRemoveError(no_dir_err) == ~no_dir_err

copy_directory_after_file ==
    /\ pc = "copy_file_return"
    /\ idx > 0
    /\ LET rm == RemoveFile(fs, cf.src, faults)
           next(h) ==
               /\ idx' = idx + 1
               /\ pc' = "dir_loop"
               /\ cf' = IdleCf
               /\ hist' = h
               /\ result' = result
       IN  IF cf.res.kind # "Ok"
           THEN /\ fs' = fs
                /\ IF StopOnError(opts.no_dir_err)
                   THEN /\ Return(cf.res, [hist EXCEPT !.failed = @ \cup {idx}])
                        /\ UNCHANGED <<idx, cf>>
                   ELSE next([hist EXCEPT !.failed = @ \cup {idx}])
           ELSE IF opts.remove
           THEN /\ fs' = rm.fs
                /\ IF rm.err # "ok" /\ StopOnRemoveError(opts.no_dir_err)
                   THEN /\ Return(Err(rm.err, "failed to remove source file"),
                                  [Touch(hist, {"remove"} \cup RemoveErrors(rm))
                                      EXCEPT !.copied = @ \cup {idx}])
                        /\ UNCHANGED <<idx, cf>>
                   ELSE next([Touch(hist, {"remove"} \cup RemoveErrors(rm))
                                 EXCEPT !.copied = @ \cup {idx},
                                 !.removed = IF rm.err = "ok" THEN @ \cup {cf.src} ELSE @])
           ELSE /\ fs' = fs
                /\ next([hist EXCEPT !.copied = @ \cup {idx}])
    /\ UNCHANGED <<fs0, src, dst, opts, stats, destination, filelist, faults, first, app>>

Next ==
    \/ copy
    \/ copy_directory_list
    \/ copy_directory_call
    \/ copy_directory_end
    \/ copy_file_open
    \/ copy_file_chunk
    \/ copy_file_finish
    \/ copy_after_file
    \/ copy_directory_after_file

Spec == Init /\ [][Next]_vars

\* main, main.rs:31-35, run once more with the same arguments: copy is called
\* again on the file system the first call left, with options and statistics
\* built anew; how the first call ended is kept.
copy_again ==
    /\ pc = "done"
    /\ ~first.done
    /\ first' = [done |-> TRUE, result |-> result, fs |-> fs]
    /\ fs0' = fs
    /\ stats' = [transferred |-> 0, total |-> 0]
    /\ pc' = "start"
    /\ destination' = <<>>
    /\ filelist' = <<>>
    /\ idx' = 0
    /\ cf' = IdleCf
    /\ result' = NoResult
    /\ hist' = NoHist
    /\ UNCHANGED <<fs, src, dst, opts, faults, app>>

NextTwice ==
    \/ Next
    \/ copy_again

SpecTwice == InitTwice /\ [][NextTwice]_vars

\* util::parse_size_from_str applied on its own.  A product that overflows
\* panics in a build with overflow checks and wraps in one without.
parse_size_from_str_call ==
    /\ app.fn = "parse_size_from_str"
    /\ ~app.done
    /\ LET r == parse_size_from_str(app.str_size)
       IN  \E checks \in IF r.overflow THEN BOOLEAN ELSE {FALSE} :
              app' = [app EXCEPT !.done = TRUE,
                                 !.ret = IF checks THEN [panic |-> TRUE, v |-> <<>>]
                                         ELSE [panic |-> FALSE, v |-> r.v]]
    /\ UNCHANGED <<fs, fs0, src, dst, opts, stats, pc, destination, filelist, idx, cf, result,
                   hist, faults, first>>

NextParse == parse_size_from_str_call

SpecParse == InitParse /\ [][NextParse]_vars

\* util::copy_n applied on its own.
copy_n_call ==
    /\ app.fn = "copy_n"
    /\ ~app.done
    /\ app' = [app EXCEPT !.done = TRUE, !.ret = copy_n(app.avail, app.bytes_to_read, app.io)]
    /\ UNCHANGED <<fs, fs0, src, dst, opts, stats, pc, destination, filelist, idx, cf, result,
                   hist, faults, first>>

NextCopyN == copy_n_call

SpecCopyN == InitCopyN /\ [][NextCopyN]_vars

\* The same calls in an environment where I/O errors happen.
\* The copy of one file, s to t, run to its end: t is absent or a file, the
\* source has up to MaxLiveLen bytes and the block up to MaxLiveBlock.  copy is
\* sequential code: a step that can be taken is taken.
LiveFiles ==
    UNION {{PutPre(Put(EmptyFS, S, FileNode(SrcData(1, n), 1)), T, pre)
            : pre \in PreStates(SrcData(1, n))}
           : n \in 0..MaxLiveLen}

InitLive ==
    /\ \E g \in LiveFiles :
          /\ fs = g
          /\ fs0 = g
    /\ src = S
    /\ dst = T
    /\ opts \in [block_size : 0..MaxLiveBlock, force : BOOLEAN, show_progress : {FALSE},
                 recursive : {FALSE}, remove : {FALSE}, no_dir_err : {FALSE}, resume : BOOLEAN]
    /\ faults = NoFaults
    /\ Fresh

NextFile ==
    \/ copy
    \/ copy_file_open
    \/ copy_file_chunk
    \/ copy_file_finish
    \/ copy_after_file

SpecLive == InitLive /\ [][NextFile]_vars /\ WF_vars(NextFile)

SpecFaults == InitFaults /\ [][Next]_vars

\* The calls of copy that move: CopyOptions.remove is set, under every fault
\* set of InitFaults.
InitMove ==
    /\ InitFaults
    /\ opts.remove

SpecMove == InitMove /\ [][Next]_vars

\* ------------------------------------------------------------------- claims
Done == pc = "done"

ReturnedOk == pc = "done" /\ result.kind = "Ok"

\* The call was for a single regular file, for a directory.
FileCall == IsFile(fs0, src)

DirCall == IsDir(fs0, src) /\ src # <<>>

\* copy's effective destination, from the file system it was called on.
EffectiveDst == IF IsDir(fs0, dst) THEN Join(dst, <<Basename(src)>>) ELSE dst

RECURSIVE TreeBytesOf(_, _)
TreeBytesOf(f, P) ==
    IF P = {} THEN 0
    ELSE LET p == CHOOSE x \in P : TRUE
         IN  (IF f[p].kind = "file" THEN Len(f[p].data) ELSE 0) + TreeBytesOf(f, P \ {p})

\* The bytes of all files under a directory.
TreeBytes(f, root) == TreeBytesOf(f, Under(f, root))

\* C1 (as claimed): whenever copy_file returns Ok with resume and move off, the
\* destination holds exactly the source's bytes and has the source's
\* permission bits, whatever the destination held before.
C1_Claim ==
    (pc = "copy_file_return" /\ cf.res.kind = "Ok" /\ ~opts.resume /\ ~opts.remove)
        => /\ fs[cf.dst].data = fs[cf.src].data
           /\ fs[cf.dst].mode = fs[cf.src].mode

\* An interrupted copy: resume is set and the destination, a file other than
\* the source itself, holds the first K bytes of the source file.
ResumeCase ==
    /\ opts.resume
    /\ FileCall
    /\ EffectiveDst # src
    /\ IsFile(fs0, EffectiveDst)
    /\ IsPrefix(fs0[EffectiveDst].data, fs0[src].data)

\* The resumed copy succeeds and completes the destination; it appends, reads
\* the source from byte K on, leaves the destination's first K bytes as they
\* were, and has both counters at K before the first call of copy_n.
ResumeHolds ==
    LET K == Len(fs0[EffectiveDst].data)
        source == fs0[src].data
    IN  /\ pc = "done" => /\ result.kind = "Ok"
                          /\ fs[EffectiveDst].data = source
        /\ pc = "copy_file_loop" =>
              /\ cf.append
              /\ cf.pos >= K
              /\ fs[EffectiveDst].data = SubSeq(source, 1, cf.pos)
              /\ SubSeq(fs[EffectiveDst].data, 1, K) = fs0[EffectiveDst].data
              /\ cf.calls = 0 => cf.bytes_transferred = K /\ stats.transferred = K
        /\ pc = "copy_file_return" => cf.res.kind = "Ok"

\* C2 (as claimed): when the destination file holds the first K bytes of the
\* N-byte source file, 0 <= K <= N, copy with resume returns Ok and leaves the
\* destination equal to the source; only the bytes from K on are read and
\* appended, and both counters start at K.
C2_Claim == ResumeCase => ResumeHolds

\* C2 (amended): the same for every block size of at least 1.  With block size
\* 0 copy_n moves nothing and the copy of an unfinished file fails.
C2_Resume == (ResumeCase /\ opts.block_size >= 1) => ResumeHolds

C2_Witness ==
    /\ ResumeCase
    /\ pc = "done"
    /\ result.kind = "Ok"
    /\ Len(fs0[EffectiveDst].data) = 1
    /\ Len(fs0[src].data) = 2
    /\ fs[EffectiveDst].data = fs0[src].data

\* C3: copy returns Ok only with transferred equal to total, and total is then
\* the size of the single source file, or the sum of the sizes of the files
\* listed, which are all the files under the source directory.
C3_Totals ==
    ReturnedOk =>
        /\ stats.transferred = stats.total
        /\ FileCall => stats.total = Len(fs0[src].data)
        /\ DirCall => stats.total = SumSizes(filelist) /\ stats.total = TreeBytes(fs0, src)

C3_Witness ==
    /\ ReturnedOk
    /\ DirCall
    /\ ~opts.resume
    /\ destination # src
    /\ Len(filelist) = 2
    /\ stats.total = 2
    /\ stats.transferred = 2

\* C4 (as claimed): after a successful move of a single file the source path is
\* gone and the effective destination holds the bytes the source held.
C4_Claim ==
    (ReturnedOk /\ opts.remove /\ FileCall) =>
        /\ ~Exists(fs, src)
        /\ IsFile(fs, EffectiveDst)
        /\ fs[EffectiveDst].data = fs0[src].data

\* C5: after a successful recursive move nothing of the source tree exists,
\* neither its root nor any file or directory under it.
C5_MoveTree ==
    (ReturnedOk /\ opts.remove /\ DirCall) =>
        \A p \in DOMAIN fs0 : IsPrefix(src, p) => ~Exists(fs, p)

C5_Witness ==
    /\ ReturnedOk
    /\ opts.remove
    /\ DirCall
    /\ destination # src
    /\ Len(filelist) = 2
    /\ stats.transferred = 2
    /\ ~opts.resume
    /\ Join(src, <<"d", "b">>) \in DOMAIN fs0
    /\ Join(destination, <<"d", "b">>) \in DOMAIN fs

\* C6: when copy_file finds its destination existing and neither force nor
\* resume is set, it returns AlreadyExists and changes neither the file system
\* (the destination's bytes, length and mode among it) nor the statistics, and
\* it makes no call that creates or writes.
C6_AlreadyExists ==
    [][(pc = "copy_file" /\ Exists(fs, cf.dst) /\ ~opts.force /\ ~opts.resume)
        => /\ pc' = "copy_file_return"
           /\ cf'.res.kind = "AlreadyExists"
           /\ fs' = fs
           /\ stats' = stats
           /\ hist'.touched \ hist.touched \subseteq {"open", "stat"}]_vars

C6_Witness ==
    /\ pc = "copy_file_return"
    /\ cf.res.kind = "AlreadyExists"
    /\ IsFile(fs, cf.dst)
    /\ Len(fs[cf.dst].data) = 2
    /\ fs[cf.dst] = fs0[cf.dst]
    /\ fs[cf.dst].data # fs[cf.src].data

\* C7: copy with the same path string as source and destination returns an
\* error, whatever the options and the file system, and makes no file system
\* call before it does: the call goes from its start to its end in one step.
C7_SamePath ==
    src = dst =>
        /\ pc \in {"start", "done"}
        /\ hist.touched = {}
        /\ fs = fs0
        /\ pc = "done" => result.kind = "Other" /\ result.msg = "destination is same as the source"

C7_Witness ==
    /\ src = dst
    /\ pc = "done"
    /\ IsDir(fs0, src)
    /\ opts.recursive
    /\ opts.force
    /\ opts.remove

\* C8 (as claimed): a call of copy on a directory without recursive set returns
\* InvalidInput, whatever the destination argument, and changes nothing.
C8_Claim ==
    (Done /\ DirCall /\ ~opts.recursive) => result.kind = "InvalidInput" /\ fs = fs0

\* C8 (amended): such a call returns InvalidInput unless the destination
\* argument is the source's own path string, for which the same-path check
\* comes first and the error is of kind Other; in both cases nothing is
\* changed, and nothing is listed, opened or created.
C8_NotRecursive ==
    (DirCall /\ ~opts.recursive) =>
        /\ pc \in {"start", "done"}
        /\ fs = fs0
        /\ hist.touched \subseteq {"stat"}
        /\ pc = "done" => result.kind = IF src = dst THEN "Other" ELSE "InvalidInput"

C8_Witness ==
    /\ Done
    /\ DirCall
    /\ ~opts.recursive
    /\ src # dst
    /\ result.kind = "InvalidInput"
    /\ IsDir(fs0, dst)
    /\ opts.force
    /\ Join(src, <<"a">>) \in DOMAIN fs0

\* The positions of the file list, in its order.
ListPositions == [i \in 1..Len(filelist) |-> i]

\* C9: in copy_directory without no_dir_err the first error copy_file returns
\* is copy's result and ends the walk: no later file of the list is handed to
\* copy_file, and its source and its destination stay as they were.  With
\* no_dir_err an error returned by copy_file does not end the walk: when copy
\* returns, copy_file has been called for every file of the list, in the
\* list's order.  (A panic inside copy_file is not a returned error.)
C9_ErrorPolicy ==
    (idx > 0) =>
        /\ hist.attempted = SubSeq(ListPositions, 1, Len(hist.attempted))
        /\ (~opts.no_dir_err /\ hist.failed # {}) =>
              /\ pc = "done"
              /\ result = cf.res
              /\ hist.failed = {idx}
              /\ Len(hist.attempted) = idx
              /\ \A j \in (idx + 1)..Len(filelist) :
                    LET from == Join(src, filelist[j].path)
                        to == Join(destination, filelist[j].path)
                    IN  /\ IsFile(fs, from) /\ fs[from] = fs0[from]
                        /\ Exists(fs, to) = Exists(fs0, to)
                        /\ Exists(fs, to) => fs[to] = fs0[to]
        /\ (opts.no_dir_err /\ pc = "done" /\ result.kind # "panic") =>
              hist.attempted = ListPositions

C9_Witness ==
    /\ pc = "done"
    /\ opts.no_dir_err
    /\ Len(filelist) = 2
    /\ hist.failed = {1}
    /\ hist.copied = {2}
    /\ hist.attempted = <<1, 2>>

\* C10 (as claimed): with no_dir_err set, a file of a directory copy whose
\* copy_file fails is skipped and the copy does not fail because of it: when
\* every other file was copied, copy returns Ok.
C10_Claim ==
    (Done /\ idx > 0 /\ opts.no_dir_err /\ ~opts.remove /\ Cardinality(hist.failed) = 1
        /\ hist.copied \cup hist.failed = 1..Len(filelist))
        => result.kind = "Ok"

\* The files under the source directory, by their paths relative to it.
SourceFiles == {SubSeq(p, Len(src) + 1, Len(p)) : p \in {q \in Under(fs0, src) : fs0[q].kind = "file"}}

\* C11 (as claimed): list_dir_recursive_rel returns a list only when every
\* directory of the tree could be listed and every entry's metadata could be
\* read, at any depth; the list then has exactly one entry, relative path and
\* size, for every file under the tree, and none for a directory.
C11_Claim ==
    (pc = "dir_loop") =>
        /\ \A p \in Under(fs0, src) : p \notin faults.unlistable /\ p \notin faults.nometa
        /\ {filelist[i].path : i \in 1..Len(filelist)} = SourceFiles
        /\ Len(filelist) = Cardinality(SourceFiles)
        /\ \A i \in 1..Len(filelist) :
              filelist[i].size = Len(fs0[Join(src, filelist[i].path)].data)

\* C12 (as claimed): whenever the transfer loop of copy_file has ended with the
\* local count different from the size of the source, copy_file returns an
\* error whose message reports the missing bytes, the size minus the count, a
\* number that is not negative; copy_file returns Ok only when the two are equal.
C12_Claim ==
    /\ (pc \in {"copy_file_return", "done"} /\ cf.calls > 0 /\ cf.bytes_transferred # cf.len) =>
           /\ cf.res.kind = "Other"
           /\ cf.res.msg = "missing bytes in destination"
           /\ cf.len >= cf.bytes_transferred
           /\ cf.missing = U64(cf.len - cf.bytes_transferred)
    /\ (pc = "copy_file_return" /\ cf.res.kind = "Ok") => cf.bytes_transferred = cf.len

\* The source files that hold bytes, and where a file of the source goes.
NonEmptySources == {q \in Under(fs0, src) : fs0[q].kind = "file" /\ Len(fs0[q].data) > 0}

TargetOf(p) == Join(destination, SubSeq(p, Len(src) + 1, Len(p)))

\* C13 (as claimed): a read error inside copy_n is not an error of copy_n: a
\* copy_file that met one and fails, fails on the byte count; whenever copy
\* returns Ok after read errors, no destination file is shorter than its
\* source file; a write error makes copy_file fail with that error, and
\* without no_dir_err it is copy's error.
C13_Claim ==
    /\ (pc = "copy_file_return" /\ cf.calls > 0 /\ cf.res.kind # "Ok"
            /\ "write_error" \notin hist.touched) =>
           cf.res.msg = "missing bytes in destination"
    /\ (pc = "copy_file_return" /\ cf.res.kind = "Ok") => Len(fs[cf.dst].data) >= cf.len
    /\ (ReturnedOk /\ "read_error" \in hist.touched) =>
           \A p \in NonEmptySources :
              IsFile(fs, TargetOf(p)) /\ Len(fs[TargetOf(p)].data) >= Len(fs0[p].data)
    /\ (Done /\ ~opts.no_dir_err /\ cf.res.kind = "StorageFull") => result = cf.res

\* The bytes the first k reads of a trace got.
RECURSIVE GotBefore(_, _)
GotBefore(reads, k) == IF k = 0 THEN 0 ELSE GotBefore(reads, k - 1) + reads[k].got

Least(a, b) == IF a <= b THEN a ELSE b

\* The length of the first k pieces.
RECURSIVE PiecesBefore(_, _)
PiecesBefore(out, k) == IF k = 0 THEN 0 ELSE PiecesBefore(out, k - 1) + out[k].len

\* The pieces written are the first n bytes of the source after its position,
\* each byte once and in the order the source holds them.
InSourceOrder(out, n) ==
    /\ \A i \in 1..Len(out) : out[i].len > 0 /\ out[i].from = PiecesBefore(out, i - 1)
    /\ PiecesBefore(out, Len(out)) = n

\* C14: copy_n(src, dst, N) on a source with R bytes left and no I/O error
\* returns min(N, R) and has written as many bytes, the next bytes of the
\* source in the order the source holds them; no read asks for more than what
\* is still to be moved nor for more than the 32 KiB buffer; and the read that
\* gets zero bytes is the last one.
C14_CopyN ==
    (app.fn = "copy_n" /\ app.done /\ app.io.read_fail = 0 /\ app.io.write_fail = 0) =>
        LET reads == app.ret.reads
        IN  /\ app.ret.res = "Ok"
            /\ app.ret.n = Least(app.bytes_to_read, app.avail)
            /\ app.ret.written = app.ret.n
            /\ InSourceOrder(app.ret.out, app.ret.n)
            /\ \A i \in 1..Len(reads) :
                  /\ reads[i].asked <= app.bytes_to_read - GotBefore(reads, i - 1)
                  /\ reads[i].asked <= 32 * 1024
                  /\ reads[i].got <= reads[i].asked
                  /\ reads[i].got = 0 <=> i = Len(reads)

C14_Witness ==
    /\ app.fn = "copy_n"
    /\ app.done
    /\ app.io.read_fail = 0
    /\ app.io.write_fail = 0
    /\ app.bytes_to_read = 2 * 32 * 1024 + 1
    /\ app.avail = 32 * 1024 + 1
    /\ app.ret.n = 32 * 1024 + 1
    /\ Len(app.ret.reads) = 3
    /\ app.ret.out = <<[from |-> 0, len |-> 32 * 1024], [from |-> 32 * 1024, len |-> 1]>>

\* C15: when the destination argument is an existing directory, copy works on
\* the path of the source's basename in it, and the directory stays one: a
\* successful copy of a file leaves the file there.  When the destination
\* argument is an existing regular file and the source is a directory, copy
\* returns an error and nothing is created, opened or changed.
C15_Retarget ==
    /\ (IsDir(fs0, dst) /\ pc \notin {"start", "done"}) =>
           destination = Join(dst, <<Basename(src)>>)
    /\ (IsDir(fs0, dst) /\ src # dst) => IsDir(fs, dst)
    /\ (IsDir(fs0, dst) /\ ReturnedOk /\ FileCall /\ ~opts.remove) =>
           /\ destination = Join(dst, <<Basename(src)>>)
           /\ IsFile(fs, Join(dst, <<Basename(src)>>))
    /\ (IsFile(fs0, dst) /\ DirCall) =>
           /\ pc \in {"start", "done"}
           /\ fs = fs0
           /\ hist.touched \subseteq {"stat"}
           /\ pc = "done" => result.kind \in {"Other", "InvalidInput"}

C15_Witness ==
    /\ ReturnedOk
    /\ FileCall
    /\ ~opts.remove
    /\ dst = T
    /\ IsDir(fs0, T)
    /\ ~Exists(fs0, TS)
    /\ IsFile(fs, TS)
    /\ IsDir(fs, T)
    /\ fs[TS].data = fs0[src].data
    /\ Len(fs[TS].data) = 2

\* C16 (as claimed): copy of a file with force set, move and resume off, run
\* twice in a row on an unchanged source: when the first run returned Ok, so
\* does the second, and the destination then holds what it held after the
\* first run, which is what the source holds.
C16_Claim ==
    (first.done /\ Done /\ FileCall /\ first.result.kind = "Ok") =>
        /\ result.kind = "Ok"
        /\ fs[destination].data = first.fs[destination].data
        /\ fs[destination].data = fs[src].data

\* The input of parse_size_from_str: its digits and what follows them.
InputDigits == SubSeq(app.str_size, 1, LeadingDigits(app.str_size, 0))

InputSuffix == SubSeq(app.str_size, LeadingDigits(app.str_size, 0) + 1, Len(app.str_size))

\* The power of 1024 a suffix stands for; 0 for a suffix that is not recognized.
UnitOf(suffix) ==
    IF suffix \in {<<"k">>, <<"K">>} THEN 1
    ELSE IF suffix \in {<<"m">>, <<"M">>} THEN 2
    ELSE IF suffix \in {<<"g">>, <<"G">>} THEN 3
    ELSE 0

\* C17 (as claimed): parse_size_from_str returns the number times 1024, 1024^2
\* or 1024^3 for the suffix k/K, m/M or g/G, and exactly 8 * 1024 * 1024 for
\* every input whose suffix is not one of these or whose digits cannot be
\* parsed, the empty run of digits among them.
C17_Claim ==
    (app.fn = "parse_size_from_str" /\ app.done) =>
        LET num == parse_u64(InputDigits)
            unit == UnitOf(InputSuffix)
        IN  /\ ~app.ret.panic
            /\ IF unit = 0 \/ ~num.ok
               THEN app.ret.v = U64(8 * 1024 * 1024)
               ELSE /\ ~TimesKB(num.v, unit).overflow
                    /\ app.ret.v = TimesKB(num.v, unit).v

\* C18: in a directory copy stats.total is the sum of the sizes of all files
\* of the tree from the listing on: it is that sum before copy_file is called
\* for the first file, when nothing has been transferred and no progress
\* reported, and in every later state.  In a single-file copy it is the size of
\* the source when copy_file is called, and in every later state.
C18_TotalFirst ==
    /\ (DirCall /\ (pc \in {"dir_loop", "copy_file", "copy_file_loop", "copy_file_return"}
                      \/ (pc = "done" /\ idx > 0))) =>
           stats.total = TreeBytes(fs0, src)
    /\ (pc = "dir_loop" /\ idx = 1) =>
           /\ hist.attempted = <<>>
           /\ stats.transferred = 0
           /\ hist.progress = <<>>
           /\ hist.touched \subseteq {"stat", "read_dir"}
    /\ (FileCall /\ (pc \in {"copy_file", "copy_file_loop", "copy_file_return"}
                       \/ (pc = "done" /\ "open" \in hist.touched))) =>
           stats.total = Len(fs0[src].data)
    /\ (FileCall /\ pc = "copy_file") =>
           /\ stats.transferred = 0
           /\ hist.progress = <<>>
           /\ hist.touched \subseteq {"stat"}

C18_Witness ==
    /\ pc = "copy_file_loop"
    /\ idx = 2
    /\ Len(filelist) = 2
    /\ stats.total = 2
    /\ stats.transferred = 2
    /\ hist.copied = {1}
    /\ hist.attempted = <<1, 2>>
    /\ ~opts.resume

\* The calls of the progress handler for the file copy_file is at, in order.
ProgressOf(file) == SelectSeq(hist.progress, LAMBDA e : e.src = file)

\* C19: without show_progress the progress handler is never called.  With it,
\* the handler has been called once for every chunk of the file that was not
\* empty; the last call passed the two counters as they are after that chunk was
\* added; the per-file counts passed grow strictly from call to call and none
\* is above the file total passed; and when copy_file returns Ok for a file
\* that had a chunk, the last call passed the file total as the count.
C19_Progress ==
    /\ ~opts.show_progress => hist.progress = <<>>
    /\ (opts.show_progress /\ pc \in {"copy_file_loop", "copy_file_return"}) =>
           LET calls == ProgressOf(cf.src)
           IN  /\ Len(calls) = cf.chunks
               /\ \A i \in 1..Len(calls) :
                     /\ calls[i].total = cf.len
                     /\ calls[i].bytes_transferred <= calls[i].total
                     /\ i > 1 => /\ calls[i].bytes_transferred > calls[i - 1].bytes_transferred
                                 /\ calls[i].stats.transferred - calls[i - 1].stats.transferred
                                       = calls[i].bytes_transferred - calls[i - 1].bytes_transferred
               /\ cf.chunks > 0 =>
                     /\ calls[Len(calls)] = hist.progress[Len(hist.progress)]
                     /\ calls[Len(calls)].bytes_transferred = cf.bytes_transferred
                     /\ calls[Len(calls)].stats = stats
               /\ (pc = "copy_file_return" /\ cf.res.kind = "Ok" /\ cf.chunks > 0) =>
                     calls[Len(calls)].bytes_transferred = cf.len

C19_Witness ==
    /\ opts.show_progress
    /\ pc = "copy_file_return"
    /\ cf.res.kind = "Ok"
    /\ cf.chunks = 2
    /\ cf.len = 2
    /\ Len(hist.progress) = 2
    /\ hist.progress[1].bytes_transferred = 1
    /\ hist.progress[2].bytes_transferred = 2

\* C20: in a directory move, when remove_file fails for a source file that
\* was copied: without no_dir_err copy returns that error at once and hands no
\* further file to copy_file; with no_dir_err the walk goes on through the
\* whole list and the error is not copy's.  After the walk, whatever
\* no_dir_err, copy ends without the source directory's removal error only
\* when the source directory is gone, a NotFound of remove_dir being no error.
C20_MoveErrors ==
    (DirCall /\ opts.remove /\ idx > 0) =>
        /\ ("remove_error" \in hist.touched /\ ~opts.no_dir_err) =>
               /\ pc = "done"
               /\ result.msg = "failed to remove source file"
               /\ result.kind \in {"PermissionDenied", "NotFound"}
               /\ idx \in hist.copied
               /\ Len(hist.attempted) = idx
        /\ ("remove_error" \in hist.touched /\ opts.no_dir_err /\ pc = "done"
                /\ result.kind # "panic") =>
               /\ hist.attempted = ListPositions
               /\ idx = Len(filelist) + 1
               /\ result.msg # "failed to remove source file"
        /\ (pc = "done" /\ idx = Len(filelist) + 1) =>
               /\ result.msg # "failed to remove source directory" => ~Exists(fs, src)
               /\ result.msg = "failed to remove source directory" =>
                     /\ result.kind \in {"PermissionDenied", "DirectoryNotEmpty"}
                     /\ Exists(fs, src)
               /\ (hist.copied = 1..Len(filelist) /\ "remove_error" \notin hist.touched
                      /\ \E r \in faults.remove : r.kind = "NotFound" /\ IsDir(fs0, r.path)) =>
                     result.msg # "failed to remove source directory"

C20_Witness ==
    /\ DirCall
    /\ opts.remove
    /\ opts.no_dir_err
    /\ pc = "done"
    /\ "remove_error" \in hist.touched
    /\ hist.attempted = <<1, 2>>
    /\ hist.copied = {1, 2}
    /\ stats.transferred = 2
    /\ Cardinality(hist.removed) = 1
    /\ result.msg = "failed to remove source directory"
    /\ result.kind = "DirectoryNotEmpty"

\* The regular files of the source as copy found it: the source itself, or
\* every file of its tree.
SourcePaths == {q \in Under(fs0, src) : fs0[q].kind = "file"}

\* The source files whose call of copy_file has returned Ok.
CopiedPaths ==
    IF FileCall THEN (IF 0 \in hist.copied THEN {src} ELSE {})
    ELSE {Join(src, filelist[i].path) : i \in hist.copied}

\* C21: in a move, of a file or of a directory, with no_dir_err set or not, a
\* source file is removed only after its call of copy_file returned Ok; a source
\* file whose copy failed or was never attempted is still there, and so is
\* every directory of the source tree above it.
C21_MoveKeepsUncopied ==
    opts.remove =>
        /\ hist.removed \subseteq CopiedPaths
        /\ \A p \in SourcePaths \ CopiedPaths :
              /\ IsFile(fs, p)
              /\ \A q \in Prefixes(p) : IsPrefix(src, q) /\ q # p => IsDir(fs, q)

\* A move with no_dir_err returned after the copy of one file of the tree
\* failed: the other file was copied and removed, the failed one and its
\* directories are still in the source.
C21_Witness ==
    /\ DirCall
    /\ opts.remove
    /\ opts.no_dir_err
    /\ pc = "done"
    /\ result.msg = "failed to remove source directory"
    /\ Cardinality(hist.failed) = 1
    /\ Cardinality(hist.copied) = 1
    /\ Cardinality(hist.removed) = 1
    /\ \E p \in SourcePaths \ CopiedPaths : Len(p) = Len(src) + 2 /\ IsFile(fs, p)

\* C22: in every state of a copy, whatever the options and whatever the
\* destination held, stats.transferred is at most stats.total and, inside
\* copy_file, the count of bytes transferred is at most the size of the source
\* file.
C22_Claim ==
    /\ stats.transferred <= stats.total
    /\ pc \in {"copy_file_loop", "copy_file_return"} => cf.bytes_transferred <= cf.len

\* ceil(n / b), for b >= 1.
CeilDiv(n, b) == (n + b - 1) \div b

\* copy_file is in its transfer loop.
InLoop == pc = "copy_file_loop"

\* With a block size of at least 1 the loop makes at most ceil(N / B) + 1 calls
\* of copy_n for a source of N bytes.
CallBound == opts.block_size >= 1 => cf.calls <= CeilDiv(cf.len, opts.block_size) + 1

\* With block size 0 the loop ends after one call of copy_n.
OneCall == (opts.block_size = 0 /\ cf.calls > 0) => (cf.calls = 1 /\ ~InLoop)

\* With block size 0 copy_file returns Ok for an empty source and the
\* missing-bytes error for any other.
ZeroBlockResult ==
    (opts.block_size = 0 /\ cf.calls > 0) =>
        IF cf.len = 0 THEN cf.res = Ok
        ELSE cf.res = Err("Other", "missing bytes in destination")

\* C23: for every source file and every block size, 0 too, the transfer loop of
\* copy_file ends; with block size B >= 1 and a source of N bytes it makes at
\* most ceil(N / B) + 1 calls of copy_n, and with block size 0 it ends after one
\* call, with Ok for an empty source and the missing-bytes error for any other.
C23_Claim ==
    /\ [](CallBound /\ OneCall /\ ZeroBlockResult)
    /\ InLoop ~> ~InLoop

\* With block size 0 nothing is moved: copy_file returns Ok when the bytes
\* counted at the start (none, or in a resumed copy the length of the
\* destination) are all of the source, and the missing-bytes error when they
\* are fewer.
ZeroBlockResumed ==
    (opts.block_size = 0 /\ cf.calls > 0 /\ cf.bytes_transferred <= cf.len) =>
        IF cf.bytes_transferred = cf.len THEN cf.res = Ok
        ELSE cf.res = Err("Other", "missing bytes in destination")

\* C23 (amended): the transfer loop of copy_file ends for every source file and
\* every block size; with block size B >= 1 it makes at most ceil(N / B) + 1
\* calls of copy_n, with block size 0 exactly one, and then returns Ok when the
\* bytes counted at the start are all N bytes of the source, the missing-bytes
\* error when they are fewer.
C23_Terminates ==
    /\ [](CallBound /\ OneCall /\ ZeroBlockResumed)
    /\ InLoop ~> ~InLoop

\* A copy with block size 2 of a source of 3 bytes, which 2 does not divide,
\* returned Ok after 3 calls of copy_n: ceil(3 / 2) + 1, the most the bound
\* allows, and more than 3 / 2 rounded down, plus 1.
C23_Witness ==
    /\ pc = "done"
    /\ result = Ok
    /\ opts.block_size = 2
    /\ ~opts.resume
    /\ cf.len = 3
    /\ cf.calls = 3
    /\ cf.calls = CeilDiv(cf.len, opts.block_size) + 1
    /\ cf.calls > (cf.len \div opts.block_size) + 1

\* The directories of the source tree as copy found it, the root among them.
SourceDirs == {q \in Under(fs0, src) : fs0[q].kind = "dir"}

\* C24: after a recursive copy or move of a directory that returned Ok, every
\* directory of the source tree, one that holds no file and an empty root too,
\* is a directory at the same relative path under the effective destination.
C24_Claim ==
    (DirCall /\ opts.recursive /\ ReturnedOk) =>
        \A q \in SourceDirs : IsDir(fs, TargetOf(q))
====
